---- MODULE Spec2Model ----
(***************************************************************************)
(* Samsara // SFMTA integration (src/application.py).                      *)
(*                                                                         *)
(* The model follows the synchronisation loop push_all_data, the calls it  *)
(* makes (get_vehicle_details, get_all_vehicle_data, push_all_vehicle_data)*)
(* and the per-vehicle pool tasks (push_vehicle_data, which calls          *)
(* build_sfmta_payload and find_stop_id).  One action is one step of one   *)
(* thread between two points where another thread can observe or change    *)
(* shared state: a network call, a read of the clock, a write of a global. *)
(*                                                                         *)
(* Python values: a dict is a function whose DOMAIN is its key set, a      *)
(* missing key is a KeyError; None is the empty tuple << >> and a present  *)
(* number x is << x >>; a value that may be an int or a str is tagged.     *)
(* Coordinates are metres of arc along one meridian (all longitudes equal),*)
(* where the haversine distance of distance() is the absolute difference.  *)
(***************************************************************************)
EXTENDS Integers, Sequences, FiniteSets, TLC

\* ---------------------------------------------------------------- config
FREQUENCY == 5
DISTANCE_THRESHOLD == 50
MAX_RETRIES == 10
ERROR_EMAIL_DELAY == 7200
\* the "no stop" id of find_stop_id and build_sfmta_payload
NO_STOP_ID == 9999
\* distance() of an unknown coordinate, and the initial min_distance
FAR_AWAY == 99999

\* ---------------------------------------------------------------- bounds
\* cycles of the loop that are started
MaxCycles == 2
\* times the clock moves on its own (besides time.sleep)
MaxTicks == 1
\* rows of the vehicle sheet
MaxFeedLen == 2
\* the stops of an allowed stops object
MaxStops == 2

\* what one clock movement can be: a second, or more than an alert window
TimeSteps == {1, ERROR_EMAIL_DELAY + 1}
\* time.time() when the loop starts: epoch seconds, later than one alert window
StartTime == ERROR_EMAIL_DELAY + 1
AllVehicles == {"v1", "v2"}

VARIABLES
    clock, ticks,
    sinkOutcomes, fleet, last_cycle, sheet_reply,
    pc, cycle, start_time, time_to_wait,
    fetch_retries, fetch_attempts, fetch_result, current_error_time,
    LAST_ERROR_EMAIL_TIME,
    vehicle_ids, placards, license_plates,
    vehicle_lat, vehicle_long, vehicle_onTrip,
    s3_stops,
    tasks,
    last_sent

vars == << clock, ticks, sinkOutcomes, fleet, last_cycle, sheet_reply, pc, cycle, start_time, time_to_wait,
           fetch_retries, fetch_attempts, fetch_result, current_error_time,
           LAST_ERROR_EMAIL_TIME, vehicle_ids, placards, license_plates,
           vehicle_lat, vehicle_long, vehicle_onTrip, s3_stops, tasks,
           last_sent >>

\* ---------------------------------------------------------------- values
None == << >>
Some(x) == << x >>
IntVal(n) == << "int", n >>
StrVal(s) == << "str", s >>
EmptyDict == [k \in {} |-> None]
Put(d, k, v) == [x \in (DOMAIN d) \cup {k} |-> IF x = k THEN v ELSE d[x]]
Abs(x) == IF x < 0 THEN -x ELSE x

\* ------------------------------------------------------- helper functions
\* distance(): great circle distance in metres; an unknown coordinate is
\* "far away".  On one meridian the haversine formula is radius * |dlat|.
distance(origin_lat, origin_long, dest_lat, dest_long) ==
    IF origin_lat = None \/ origin_long = None \/ dest_lat = None \/ dest_long = None
    THEN FAR_AWAY
    ELSE Abs(dest_lat[1] - origin_lat[1])

\* row of the vehicle sheet: "ok" has every column, "noid" lacks
\* gsx$samsaradeviceid, "noplacard" lacks gsx$vehicleplacardnumber
EntryKinds == {"ok", "noid", "noplacard"}
Entries(ids) == [id : ids, kind : EntryKinds]
RECURSIVE SeqsUpTo(_, _)
SeqsUpTo(S, n) ==
    IF n = 0 THEN {<< >>}
    ELSE LET shorter == SeqsUpTo(S, n - 1)
         IN  shorter \cup {Append(q, x) : q \in {r \in shorter : Len(r) = n - 1}, x \in S}
Feeds(ids) == SeqsUpTo(Entries(ids), MaxFeedLen)

\* the for loop of get_vehicle_details over json_data['feed']['entry'], from
\* row i on; r holds vehicle_ids, placards, license_plates.  A missing column
\* raises KeyError, which leaves the loop with what was written so far.
RECURSIVE read_entries(_, _, _)
read_entries(feed, i, r) ==
    IF i > Len(feed) THEN r
    ELSE LET entry == feed[i]
             vehicle_id == entry.id
         IN  CASE entry.kind = "noid" -> r
               [] entry.kind = "noplacard" ->
                    [r EXCEPT !.vehicle_ids = @ \cup {vehicle_id}]
               [] OTHER ->
                    read_entries(feed, i + 1,
                        [vehicle_ids |-> r.vehicle_ids \cup {vehicle_id},
                         placards |-> Put(r.placards, vehicle_id, <<"placard", vehicle_id>>),
                         license_plates |-> Put(r.license_plates, vehicle_id, <<"plate", vehicle_id>>)])

\* what the sheet request gives: a non-200 status, an exception of urlopen or
\* json.loads, or a parsed feed
SheetReplies(ids) ==
    {[status |-> "http_error", feed |-> << >>], [status |-> "exception", feed |-> << >>]}
        \cup {[status |-> "ok", feed |-> f] : f \in Feeds(ids)}

\* get_vehicle_details: the roster globals after the call
get_vehicle_details(reply, ids, pl, lp) ==
    IF reply.status # "ok"
    THEN [vehicle_ids |-> ids, placards |-> pl, license_plates |-> lp]
    ELSE read_entries(reply.feed, 1,
            [vehicle_ids |-> {}, placards |-> pl, license_plates |-> lp])

\* ---------------------------------------------------------- allowed stops
\* a loop that keeps the last of several stops at the same distance
RECURSIVE scan_stops_last_wins(_, _, _, _, _, _)
scan_stops_last_wins(stops, i, min_distance, closest_stop_id, stop_lat, stop_long) ==
    IF i > Len(stops)
    THEN [min_distance |-> min_distance, closest_stop_id |-> closest_stop_id]
    ELSE LET stop == stops[i]
             curr_distance == distance(stop.StopLocationLatitude,
                                       stop.StopLocationLongitude, stop_lat, stop_long)
         IN  IF curr_distance <= min_distance
             THEN scan_stops_last_wins(stops, i + 1, curr_distance, stop.StopId,
                                       stop_lat, stop_long)
             ELSE scan_stops_last_wins(stops, i + 1, min_distance, closest_stop_id,
                                       stop_lat, stop_long)

\* the loop of find_stop_id over allowed_stops_json['Stops']['Stop'], from
\* stop i on
RECURSIVE scan_stops(_, _, _, _, _, _)
scan_stops(stops, i, min_distance, closest_stop_id, stop_lat, stop_long) ==
    IF i > Len(stops)
    THEN [min_distance |-> min_distance, closest_stop_id |-> closest_stop_id]
    ELSE LET stop == stops[i]
             curr_distance == distance(stop.StopLocationLatitude,
                                       stop.StopLocationLongitude, stop_lat, stop_long)
         IN  IF curr_distance < min_distance
             THEN scan_stops(stops, i + 1, curr_distance, stop.StopId, stop_lat, stop_long)
             ELSE scan_stops(stops, i + 1, min_distance, closest_stop_id, stop_lat, stop_long)

\* what find_stop_id returns when the S3 object cannot be read or parsed
S3_ERROR == StrVal("Error loading data from S3 bucket")

\* find_stop_id on the S3 object s3 ([readable, stops])
find_stop_id(s3, stop_lat, stop_long) ==
    IF ~s3.readable
    THEN S3_ERROR
    ELSE LET r == scan_stops(s3.stops, 1, FAR_AWAY, NO_STOP_ID, stop_lat, stop_long)
         IN  IF r.min_distance <= DISTANCE_THRESHOLD
             THEN IntVal(r.closest_stop_id)
             ELSE IntVal(NO_STOP_ID)

\* build_sfmta_payload raises KeyError when a global dict lacks the vehicle
build_raises(vehicle_id, pl, lp, lat, long, onTrip) ==
    \/ vehicle_id \notin DOMAIN pl
    \/ vehicle_id \notin DOMAIN lp
    \/ vehicle_id \notin DOMAIN onTrip
    \/ vehicle_id \notin DOMAIN lat
    \/ vehicle_id \notin DOMAIN long

\* a builder that looks the stop up for a vehicle on a trip too
build_sfmta_payload_ignores_trip(vehicle_id, pl, lp, lat, long, onTrip, s3) ==
    [VehiclePlacardNum |-> pl[vehicle_id],
     LicensePlateNum |-> lp[vehicle_id],
     StopId |-> find_stop_id(s3, lat[vehicle_id], long[vehicle_id]),
     VehicleStatus |-> IF onTrip[vehicle_id] = TRUE THEN 1 ELSE 2,
     LocationLatitude |-> lat[vehicle_id],
     LocationLongitude |-> long[vehicle_id]]

\* build_sfmta_payload: the fields taken from the globals (the two ids of
\* the environment and the formatted time stamp read no shared state)
build_sfmta_payload(vehicle_id, pl, lp, lat, long, onTrip, s3) ==
    LET on_trip == onTrip[vehicle_id] = TRUE
        vehicle_status == IF on_trip THEN 1 ELSE 2
        stop_id == IF on_trip THEN IntVal(NO_STOP_ID)
                   ELSE find_stop_id(s3, lat[vehicle_id], long[vehicle_id])
    IN  [VehiclePlacardNum |-> pl[vehicle_id],
         LicensePlateNum |-> lp[vehicle_id],
         StopId |-> stop_id,
         VehicleStatus |-> vehicle_status,
         LocationLatitude |-> lat[vehicle_id],
         LocationLongitude |-> long[vehicle_id]]

\* ------------------------------------------------------------ retry loops
\* a retry loop that makes one more pass after its retries are used up
loop_continues_once_more(local_retries) == local_retries >= 0

\* "while local_retries > 0" (lines 252 and 338)
loop_continues(local_retries) == local_retries > 0

\* ------------------------------------------------------------ alert gate
\* an alert state that takes the time of the write, not of the failure
alert_time_now(current, now) == now

\* what lines 285, 357 and 444 write to LAST_ERROR_EMAIL_TIME: the
\* current_error_time taken before the gate, whatever time.time() is now
alert_time(current, now) == current

\* "send error email if more than 2 hours has passed since last error email"
throttle_open(now, last) == (now - last) > ERROR_EMAIL_DELAY

\* send_error_email: the SMTP session ends normally ("ok"), raises before
\* sendmail has submitted the message ("raise_before": SMTP(), starttls,
\* login, sendmail) or raises after it ("raise_after": quit)
SinkOutcomes == {"ok", "raise_before", "raise_after"}
delivered(outcome) == outcome # "raise_before"

\* ------------------------------------------------------------ pool tasks
\* one pool task per started cycle and vehicle id: push_vehicle_data_star
TaskIds == (1..MaxCycles) \X AllVehicles
\* pc: "none" not dispatched, "build" before build_sfmta_payload, "post" in
\* the retry loop, "check" at the test of local_retries == 0, "send" in
\* send_error_email, "set" before the write of LAST_ERROR_EMAIL_TIME, "done"
\* returned, "raised" ended by an exception; attempts counts the POSTs made
NoTask ==
    [pc |-> "none", local_retries |-> 0, attempts |-> 0, current_error_time |-> 0,
     payload |-> << >>, result |-> "none"]
\* a task that has ended keeps its result only: its locals are gone
Ended(how, result) == [NoTask EXCEPT !.pc = how, !.result = result]
TasksOf(c) == {t \in TaskIds : t[1] = c /\ tasks[t].pc # "none"}
Running(t) == tasks[t].pc \in {"build", "post", "check", "send", "set"}

\* what the locations request of cycle c can report for one vehicle
Positions(c) ==
    {[latitude |-> Some(c), longitude |-> Some(0), onTrip |-> (c % 2 = 0)]}

\* the allowed stops object the loop runs with
DefaultStops ==
    [readable |-> TRUE,
     stops |-> << [StopId |-> 101, StopLocationLatitude |-> Some(30),
                   StopLocationLongitude |-> Some(0)] >>]

\* the state when push_all_data enters its loop.  A run is told apart by its
\* surroundings: the vehicle ids the sheet and the locations API know
\* (vehicles) and the iterations of the loop that are followed (cycles)
NoReply == [status |-> "none", feed |-> << >>]

InitRun(vehicles, cycles) ==
    /\ clock = StartTime
    /\ ticks = 0
    /\ sinkOutcomes = SinkOutcomes
    /\ fleet = vehicles
    /\ last_cycle = cycles
    /\ sheet_reply = NoReply
    /\ pc = "start"
    /\ cycle = 0
    /\ start_time = 0
    /\ time_to_wait = 0
    /\ fetch_retries = 0
    /\ fetch_attempts = 0
    /\ fetch_result = "none"
    /\ current_error_time = 0
    /\ LAST_ERROR_EMAIL_TIME = 0
    /\ vehicle_ids = {}
    /\ placards = EmptyDict
    /\ license_plates = EmptyDict
    /\ vehicle_lat = EmptyDict
    /\ vehicle_long = EmptyDict
    /\ vehicle_onTrip = EmptyDict
    /\ s3_stops = DefaultStops
    /\ tasks = [t \in TaskIds |-> NoTask]
    /\ last_sent = 0

envVars == << sinkOutcomes, fleet, last_cycle, sheet_reply, s3_stops >>
rosterVars == << vehicle_ids, placards, license_plates >>
positionVars == << vehicle_lat, vehicle_long, vehicle_onTrip >>
fetchVars == << fetch_retries, fetch_attempts, fetch_result >>
alertVars == << LAST_ERROR_EMAIL_TIME, last_sent >>
timeVars == << clock, ticks >>

\* a thread whose next step reads time.time()
clock_is_read ==
    \/ pc \in {"start", "fetch_check", "except"}
    \/ pc = "join" /\ \A t \in TaskIds : t[1] = cycle => tasks[t].pc \in {"none", "done"}
    \/ \E t \in TaskIds : tasks[t].pc = "check"

\* the clock moves while the threads are in their calls; what it moved by is
\* seen at the next read of time.time()
Tick ==
    /\ ticks < MaxTicks
    /\ clock_is_read
    /\ \E d \in TimeSteps : clock' = clock + d
    /\ ticks' = ticks + 1
    /\ UNCHANGED << envVars, pc, cycle, start_time, time_to_wait, fetchVars,
                    current_error_time, alertVars, rosterVars, positionVars, tasks >>

\* ------------------------------------------------------- push_all_data
\* a loop whose "continue" went through the sleep of lines 430-431
continue_target_waits == "wait"

\* where the loop goes on after "continue" (lines 416 and 446)
continue_target == "start"

\* top of the while loop: start_time = time.time().  The locals of the
\* iteration before are dead, and so are the pool tasks that have ended
CycleStart ==
    /\ pc = "start"
    /\ cycle < last_cycle
    /\ cycle' = cycle + 1
    /\ start_time' = clock
    /\ time_to_wait' = 0
    /\ current_error_time' = 0
    /\ fetch_retries' = 0
    /\ fetch_attempts' = 0
    /\ fetch_result' = "none"
    /\ tasks' = [t \in TaskIds |-> IF tasks[t].pc \in {"done", "raised"}
                                   THEN NoTask ELSE tasks[t]]
    /\ pc' = "roster"
    /\ UNCHANGED << envVars, timeVars, alertVars, rosterVars, positionVars >>

\* get_all_vehicle_data, line 246: get_vehicle_details(VEHICLE_SHEETS_JSON_URL)
RosterRefresh ==
    /\ pc = "roster"
    /\ \E reply \in SheetReplies(fleet) :
          LET r == get_vehicle_details(reply, vehicle_ids, placards, license_plates)
          IN  /\ sheet_reply' = reply
              /\ vehicle_ids' = r.vehicle_ids
              /\ placards' = r.placards
              /\ license_plates' = r.license_plates
    /\ fetch_retries' = MAX_RETRIES
    /\ fetch_attempts' = 0
    /\ fetch_result' = "running"
    /\ pc' = "fetch"
    /\ UNCHANGED << sinkOutcomes, fleet, last_cycle, s3_stops, timeVars, cycle,
                    start_time, time_to_wait, current_error_time, alertVars,
                    positionVars, tasks >>

\* the dicts after the loop over locations_json['vehicles'] wrote position p
\* for the vehicles in S
store_positions(d, S, value) == [x \in (DOMAIN d) \cup S |-> IF x \in S THEN value ELSE d[x]]

\* get_all_vehicle_data, one pass of the retry loop: the request and the loop
\* over the reported vehicles S.  ok = FALSE is an exception of the request,
\* of raise_for_status or of r.json(), before any vehicle is stored
FetchAttempt ==
    /\ pc = "fetch"
    /\ loop_continues(fetch_retries)
    /\ \E S \in SUBSET fleet, p \in Positions(cycle), ok \in BOOLEAN :
          /\ ok \/ S = {}
          /\ vehicle_lat' = store_positions(vehicle_lat, S, p.latitude)
          /\ vehicle_long' = store_positions(vehicle_long, S, p.longitude)
          /\ vehicle_onTrip' = store_positions(vehicle_onTrip, S, p.onTrip)
          /\ fetch_attempts' = fetch_attempts + 1
          /\ sheet_reply' = NoReply
          /\ IF ok
             THEN /\ fetch_result' = "Success"
                  /\ fetch_retries' = fetch_retries
                  /\ pc' = "dispatch"
             ELSE /\ fetch_result' = fetch_result
                  /\ fetch_retries' = fetch_retries - 1
                  /\ pc' = IF loop_continues(fetch_retries - 1)
                           THEN "fetch" ELSE "fetch_check"
    /\ UNCHANGED << sinkOutcomes, fleet, last_cycle, s3_stops, timeVars, cycle,
                    start_time, time_to_wait, current_error_time, alertVars,
                    rosterVars, tasks >>

\* get_all_vehicle_data, lines 276-281 and 287: retries used up
FetchCheck ==
    /\ pc = "fetch_check"
    /\ fetch_retries = 0
    /\ current_error_time' = clock
    /\ IF throttle_open(clock, LAST_ERROR_EMAIL_TIME)
       THEN /\ pc' = "fetch_send"
            /\ fetch_result' = fetch_result
       ELSE /\ pc' = continue_target
            /\ fetch_result' = "Failure"
    /\ UNCHANGED << envVars, timeVars, cycle, start_time, time_to_wait, fetch_retries,
                    fetch_attempts, alertVars, rosterVars, positionVars, tasks >>

\* get_all_vehicle_data, line 284: send_error_email; an exception leaves
\* get_all_vehicle_data and is caught at line 435
FetchSend ==
    /\ pc = "fetch_send"
    /\ \E outcome \in sinkOutcomes :
          /\ last_sent' = IF delivered(outcome) THEN current_error_time ELSE last_sent
          /\ IF outcome = "ok"
             THEN /\ pc' = "fetch_set"
                  /\ fetch_result' = fetch_result
             ELSE /\ pc' = "except"
                  /\ fetch_result' = "Exception"
    /\ UNCHANGED << envVars, timeVars, cycle, start_time, time_to_wait, fetch_retries,
                    fetch_attempts, current_error_time, LAST_ERROR_EMAIL_TIME,
                    rosterVars, positionVars, tasks >>

\* get_all_vehicle_data, lines 285-287, then "continue" at line 416
FetchSet ==
    /\ pc = "fetch_set"
    /\ LAST_ERROR_EMAIL_TIME' = alert_time(current_error_time, clock)
    /\ fetch_result' = "Failure"
    /\ pc' = continue_target
    /\ UNCHANGED << envVars, timeVars, cycle, start_time, time_to_wait, fetch_retries,
                    fetch_attempts, current_error_time, last_sent, rosterVars,
                    positionVars, tasks >>

\* push_all_vehicle_data, lines 378-382: ThreadPool(num_vehicles) raises
\* ValueError for no vehicle; pool.map hands one task per vehicle id to the
\* num_vehicles worker threads
Dispatch ==
    /\ pc = "dispatch"
    /\ IF Cardinality(vehicle_ids) = 0
       THEN /\ pc' = "except"
            /\ tasks' = tasks
       ELSE /\ pc' = "join"
            /\ tasks' = [t \in TaskIds |->
                            IF t[1] = cycle /\ t[2] \in vehicle_ids
                            THEN [NoTask EXCEPT !.pc = "build", !.result = "running"]
                            ELSE tasks[t]]
    /\ UNCHANGED << envVars, timeVars, cycle, start_time, time_to_wait, fetchVars,
                    current_error_time, alertVars, rosterVars, positionVars >>

\* pool.map is ready with a result: every task of the call has returned
map_returns(c) == \A t \in TasksOf(c) : tasks[t].pc = "done"
\* pool.map is ready with an exception: MapResult._set marks the result
\* ready at the first task that raised, whatever the other tasks do
map_raises(c) == \E t \in TasksOf(c) : tasks[t].pc = "raised"

\* push_all_vehicle_data returns (pool.close, pool.join); push_all_data
\* lines 423-428: time_to_wait = FREQUENCY - (end_time - start_time)
MapReturn ==
    /\ pc = "join"
    /\ map_returns(cycle)
    /\ time_to_wait' = FREQUENCY - (clock - start_time)
    /\ pc' = "wait"
    /\ UNCHANGED << envVars, timeVars, cycle, start_time, fetchVars, current_error_time,
                    alertVars, rosterVars, positionVars, tasks >>

\* pool.map re-raises a task's exception; it is caught at line 435
MapRaise ==
    /\ pc = "join"
    /\ map_raises(cycle)
    /\ pc' = "except"
    /\ UNCHANGED << envVars, timeVars, cycle, start_time, time_to_wait, fetchVars,
                    current_error_time, alertVars, rosterVars, positionVars, tasks >>

\* a loop that sleeps a whole period after every completed cycle
sleep_time_full_period(wait) == FREQUENCY

\* lines 430-431: time.sleep(time_to_wait) when it is not negative
sleep_time(wait) == IF wait >= 0 THEN wait ELSE 0

Wait ==
    /\ pc = "wait"
    /\ clock' = clock + sleep_time(time_to_wait)
    /\ pc' = "start"
    /\ UNCHANGED << envVars, ticks, cycle, start_time, time_to_wait, fetchVars,
                    current_error_time, alertVars, rosterVars, positionVars, tasks >>

\* the except clause of the loop, lines 436-440 and 446
Except ==
    /\ pc = "except"
    /\ current_error_time' = clock
    /\ pc' = IF throttle_open(clock, LAST_ERROR_EMAIL_TIME)
             THEN "except_send" ELSE continue_target
    /\ UNCHANGED << envVars, timeVars, cycle, start_time, time_to_wait, fetchVars,
                    alertVars, rosterVars, positionVars, tasks >>

\* line 443: send_error_email inside the except clause; an exception here is
\* caught by nothing and ends push_all_data
ExceptSend ==
    /\ pc = "except_send"
    /\ \E outcome \in sinkOutcomes :
          /\ last_sent' = IF delivered(outcome) THEN current_error_time ELSE last_sent
          /\ pc' = IF outcome = "ok" THEN "except_set" ELSE "terminated"
    /\ UNCHANGED << envVars, timeVars, cycle, start_time, time_to_wait, fetchVars,
                    current_error_time, LAST_ERROR_EMAIL_TIME, rosterVars,
                    positionVars, tasks >>

\* lines 444-446
ExceptSet ==
    /\ pc = "except_set"
    /\ LAST_ERROR_EMAIL_TIME' = alert_time(current_error_time, clock)
    /\ pc' = continue_target
    /\ UNCHANGED << envVars, timeVars, cycle, start_time, time_to_wait, fetchVars,
                    current_error_time, last_sent, rosterVars, positionVars, tasks >>

\* ---------------------------------------------------- push_vehicle_data
schedVars == << pc, cycle, start_time, time_to_wait, fetchVars, current_error_time >>

\* line 330: build_sfmta_payload; a KeyError ends the task.  find_stop_id
\* reads the S3 object at every call, and the read succeeds or not
TaskBuild(t) ==
    /\ tasks[t].pc = "build"
    /\ IF build_raises(t[2], placards, license_plates, vehicle_lat, vehicle_long,
                       vehicle_onTrip)
       THEN tasks' = [tasks EXCEPT ![t] = Ended("raised", "KeyError")]
       ELSE \E readable \in BOOLEAN :
              tasks' = [tasks EXCEPT
                        ![t].pc = "post",
                        ![t].local_retries = MAX_RETRIES,
                        ![t].payload = << build_sfmta_payload(t[2], placards,
                                            license_plates, vehicle_lat, vehicle_long,
                                            vehicle_onTrip,
                                            [s3_stops EXCEPT !.readable = readable]) >>]
    /\ UNCHANGED << envVars, timeVars, schedVars, alertVars, rosterVars, positionVars >>

\* lines 338-346, one pass of the retry loop: the POST and raise_for_status
TaskPost(t) ==
    /\ tasks[t].pc = "post"
    /\ loop_continues(tasks[t].local_retries)
    /\ \E ok \in BOOLEAN :
          tasks' = IF ok
                   THEN [tasks EXCEPT ![t] = Ended("done", "Success")]
                   ELSE [tasks EXCEPT ![t].attempts = @ + 1,
                                      ![t].local_retries = @ - 1,
                                      ![t].pc = IF loop_continues(tasks[t].local_retries - 1)
                                                THEN "post" ELSE "check"]
    /\ UNCHANGED << envVars, timeVars, schedVars, alertVars, rosterVars, positionVars >>

\* lines 348-353: retries used up; with the gate shut the function ends
\* without a return statement, which returns None
TaskCheck(t) ==
    /\ tasks[t].pc = "check"
    /\ tasks[t].local_retries = 0
    /\ tasks' = IF throttle_open(clock, LAST_ERROR_EMAIL_TIME)
                THEN [tasks EXCEPT ![t].current_error_time = clock, ![t].pc = "send"]
                ELSE [tasks EXCEPT ![t] = Ended("done", "None")]
    /\ UNCHANGED << envVars, timeVars, schedVars, alertVars, rosterVars, positionVars >>

\* line 356: send_error_email; an exception ends the task
TaskSend(t) ==
    /\ tasks[t].pc = "send"
    /\ \E outcome \in sinkOutcomes :
          /\ last_sent' = IF delivered(outcome)
                          THEN tasks[t].current_error_time ELSE last_sent
          /\ tasks' = IF outcome = "ok"
                      THEN [tasks EXCEPT ![t].pc = "set"]
                      ELSE [tasks EXCEPT ![t] = Ended("raised", "SMTPException")]
    /\ UNCHANGED << envVars, timeVars, schedVars, LAST_ERROR_EMAIL_TIME, rosterVars,
                    positionVars >>

\* lines 357-359
TaskSet(t) ==
    /\ tasks[t].pc = "set"
    /\ LAST_ERROR_EMAIL_TIME' = alert_time(tasks[t].current_error_time, clock)
    /\ tasks' = [tasks EXCEPT ![t] = Ended("done", "Failure")]
    /\ UNCHANGED << envVars, timeVars, schedVars, last_sent, rosterVars, positionVars >>

\* the steps of the threads
Step ==
    \/ CycleStart
    \/ RosterRefresh
    \/ FetchAttempt
    \/ FetchCheck
    \/ FetchSend
    \/ FetchSet
    \/ Dispatch
    \/ MapReturn
    \/ MapRaise
    \/ Wait
    \/ Except
    \/ ExceptSend
    \/ ExceptSet
    \/ \E t \in TaskIds : TaskBuild(t)
    \/ \E t \in TaskIds : TaskPost(t)
    \/ \E t \in TaskIds : TaskCheck(t)
    \/ \E t \in TaskIds : TaskSend(t)
    \/ \E t \in TaskIds : TaskSet(t)

Next ==
    \/ Tick
    \/ Step

\* one iteration of the loop over two vehicles
Init == InitRun(AllVehicles, 1)
Spec == Init /\ [][Next]_vars

\* MaxCycles iterations of the loop over one vehicle: no two pool tasks
InitLoop == InitRun({"v1"}, MaxCycles)
SpecLoop == InitLoop /\ [][Next]_vars

\* MaxCycles iterations of the loop over two vehicles, the clock moved by
\* time.sleep only
InitOverlap == InitRun(AllVehicles, MaxCycles)
SpecOverlap == InitOverlap /\ [][Step]_vars

\* build_sfmta_payload and find_stop_id on their own: one task about to build
\* the record of v1, over every allowed stops object of up to MaxStops stops
\* and every position of the vehicle
StopLats == {None, Some(0), Some(100)}
StopRecords ==
    [StopId : {101, 102}, StopLocationLatitude : StopLats,
     StopLocationLongitude : {Some(0)}]
StopObjects == [readable : {TRUE}, stops : SeqsUpTo(StopRecords, MaxStops)]
VehicleLats == {None, Some(0 - 51), Some(50), Some(51)}

InitPayload ==
    /\ clock = StartTime
    /\ ticks = 0
    /\ sinkOutcomes = SinkOutcomes
    /\ fleet = {"v1"}
    /\ last_cycle = 1
    /\ sheet_reply = NoReply
    /\ pc = "join"
    /\ cycle = 1
    /\ start_time = StartTime
    /\ time_to_wait = 0
    /\ fetch_retries = MAX_RETRIES
    /\ fetch_attempts = 1
    /\ fetch_result = "Success"
    /\ current_error_time = 0
    /\ LAST_ERROR_EMAIL_TIME = 0
    /\ vehicle_ids = {"v1"}
    /\ placards = Put(EmptyDict, "v1", <<"placard", "v1">>)
    /\ license_plates = Put(EmptyDict, "v1", <<"plate", "v1">>)
    /\ \E lat \in VehicleLats : vehicle_lat = Put(EmptyDict, "v1", lat)
    /\ vehicle_long = Put(EmptyDict, "v1", Some(0))
    /\ \E onTrip \in BOOLEAN : vehicle_onTrip = Put(EmptyDict, "v1", onTrip)
    /\ s3_stops \in StopObjects
    /\ tasks = [t \in TaskIds |->
                  IF t = <<1, "v1">>
                  THEN [NoTask EXCEPT !.pc = "build", !.result = "running"]
                  ELSE NoTask]
    /\ last_sent = 0
NextPayload == \E t \in TaskIds : TaskBuild(t)
SpecPayload == InitPayload /\ [][NextPayload]_vars

\* ------------------------------------------------------------ properties
\* a pool task that has passed the gate at line 353 and not yet left line 357
alerting(t) == tasks[t].pc \in {"send", "set"}

\* the iteration c of the loop is over: the loop has gone on, or has ended
cycle_over(c) == cycle > c \/ (cycle = c /\ pc \in {"start", "terminated"})

\* a step in which the scheduler or a pool task evaluates the alert gate, and
\* whether it goes on to send_error_email
gate_step ==
    \/ pc \in {"fetch_check", "except"} /\ pc' # pc
    \/ \E t \in TaskIds : tasks[t].pc = "check" /\ tasks'[t].pc # "check"
gate_opens ==
    \/ pc \in {"fetch_check", "except"} /\ pc' \in {"fetch_send", "except_send"}
    \/ \E t \in TaskIds : tasks[t].pc = "check" /\ tasks'[t].pc = "send"

\* C1: under any interleaving of the push tasks of one cycle, no two of them
\* call send_error_email for failures less than ERROR_EMAIL_DELAY apart
C1_OneAlertPerWindow ==
    \A t, u \in TaskIds :
        (t # u /\ t[1] = u[1] /\ alerting(t) /\ alerting(u))
            => Abs(tasks[t].current_error_time - tasks[u].current_error_time)
                   > ERROR_EMAIL_DELAY

\* C2: with no concurrency, a terminal failure sends a notification exactly
\* when none was sent before or the last one was sent more than
\* ERROR_EMAIL_DELAY ago; a failure less than ERROR_EMAIL_DELAY after a
\* notification sends none
C2_SequentialThrottle ==
    [][gate_step =>
          /\ (last_sent # 0 /\ clock - last_sent < ERROR_EMAIL_DELAY) => ~gate_opens
          /\ (last_sent = 0 \/ clock - last_sent > ERROR_EMAIL_DELAY) => gate_opens]_vars

\* C3: push_all_data never terminates on error
C3_LoopNeverTerminates == pc # "terminated"

\* C4: get_all_vehicle_data returns "Success" after at most MAX_RETRIES
\* attempts, the last one the only one that did not fail, and a call whose
\* MAX_RETRIES attempts have all failed returns "Failure" with no further
\* attempt
C4_FetchRetry ==
    [][/\ (fetch_result = "running" /\ fetch_result' = "Success")
              => fetch_attempts' = (MAX_RETRIES - fetch_retries) + 1
                 /\ fetch_attempts' <= MAX_RETRIES
       /\ (fetch_result = "running" /\ fetch_retries = 0 /\ fetch_result' # "running")
              => fetch_result' = "Failure" /\ fetch_attempts' = MAX_RETRIES
       /\ (fetch_result = "running" /\ fetch_retries = 0)
              => fetch_attempts' = fetch_attempts]_vars

\* C5: a push_vehicle_data call that returns without a successful POST
\* returns the terminal "Failure", whatever the alert gate did
C5_PushTerminalError ==
    \A t \in TaskIds :
        (tasks[t].pc = "done" /\ tasks[t].result # "Success")
            => tasks[t].result = "Failure"

\* C6: when the push of one vehicle has used up its retries, the push of
\* every other vehicle of that dispatch phase is finished before the cycle
\* is over
C6_Isolation ==
    \A a, b \in TaskIds :
        (a # b /\ a[1] = b[1]
              /\ tasks[a].result \in {"Failure", "None", "SMTPException"}
              /\ Running(b))
            => ~cycle_over(a[1])

\* C7: no POST to the telemetry API is made once the location fetch of a
\* cycle has returned "Failure", until a later fetch succeeds
C7_NoPostAfterFetchFailure ==
    [][\A t \in TaskIds :
          (tasks[t].pc = "post" /\ tasks'[t] # tasks[t]) => fetch_result # "Failure"]_vars

\* C8 as stated: the loop starts an iteration only out of the sleep
C8_AlwaysThroughWait == [][(pc' = "start" /\ pc # "start") => pc = "wait"]_vars

\* C8: the loop sleeps before its next iteration exactly when the fetch
\* returned "Success" and every task of pool.map returned; an iteration
\* ended by "continue" (fetch failure, or an exception caught at line 435)
\* starts the next one at once: no sleep, the clock where it was
C8_WaitOnlyAfterDispatch ==
    [][(pc' = "start" /\ pc # "start") =>
          IF pc = "wait"
          THEN /\ fetch_result = "Success"
               /\ TasksOf(cycle) # {}
               /\ map_returns(cycle)
               /\ clock' = clock + sleep_time(time_to_wait)
          ELSE /\ pc \in {"fetch_check", "fetch_set", "except", "except_set"}
               /\ clock' = clock]_vars

\* the ids of the rows of a feed, and a refresh that failed: a status other
\* than 200, an exception of the request or of the parsing, a row without
\* one of its columns
feed_ids(reply) == {reply.feed[i].id : i \in 1..Len(reply.feed)}
refresh_failed(reply) ==
    \/ reply.status # "ok"
    \/ \E i \in 1..Len(reply.feed) : reply.feed[i].kind # "ok"

\* C9: get_vehicle_details leaves the roster as it was when the refresh
\* fails, and replaces the known ids by the ids of the whole feed otherwise
C9_RosterAtomic ==
    [][(pc = "roster" /\ pc' = "fetch") =>
          IF refresh_failed(sheet_reply')
          THEN << vehicle_ids, placards, license_plates >>'
                   = << vehicle_ids, placards, license_plates >>
          ELSE vehicle_ids' = feed_ids(sheet_reply')]_vars

\* C10: the StopId of every payload built is the id of an allowed stop or
\* the sentinel 9999
C10_StopIdIsStopOrSentinel ==
    \A t \in TaskIds :
        tasks[t].payload # << >> =>
            tasks[t].payload[1].StopId \in
                {IntVal(s3_stops.stops[i].StopId) : i \in 1..Len(s3_stops.stops)}
                    \cup {IntVal(NO_STOP_ID)}

\* C8: an iteration ended by the fetch failure, the next one not yet begun
C8_Witness ==
    /\ pc = "start"
    /\ cycle = 1
    /\ fetch_result = "Failure"
    /\ fetch_attempts = MAX_RETRIES

\* a step in which task t builds its record, and the record it built
builds(t) == tasks[t].pc = "build" /\ tasks'[t].pc = "post"
built(t) == tasks'[t].payload[1]

\* C11: the record of a vehicle on a trip has StopId 9999 and VehicleStatus
\* 1 whatever the stops and the position; the record of a vehicle not on a
\* trip has VehicleStatus 2 and the StopId that find_stop_id returns
C11_OnTripPayload ==
    [][\A t \in TaskIds : builds(t) =>
          IF vehicle_onTrip[t[2]] = TRUE
          THEN built(t).StopId = IntVal(NO_STOP_ID) /\ built(t).VehicleStatus = 1
          ELSE /\ built(t).VehicleStatus = 2
               /\ \E readable \in BOOLEAN :
                     built(t).StopId =
                         find_stop_id([s3_stops EXCEPT !.readable = readable],
                                      vehicle_lat[t[2]], vehicle_long[t[2]])]_vars

\* C11: a record built for a vehicle on a trip that is within the threshold
\* of an allowed stop
C11_Witness ==
    \E t \in TaskIds :
        /\ tasks[t].payload # << >>
        /\ vehicle_onTrip[t[2]] = TRUE
        /\ find_stop_id(s3_stops, vehicle_lat[t[2]], vehicle_long[t[2]])
               \in {IntVal(101), IntVal(102)}
        /\ tasks[t].payload[1].StopId = IntVal(NO_STOP_ID)

\* the nearest stop of the design: the sentinel for no stop or no stop within
\* the threshold, else the first of the stops at the least distance
nearest_stop(stops, lat, long) ==
    LET I == 1..Len(stops)
        D(i) == distance(stops[i].StopLocationLatitude,
                         stops[i].StopLocationLongitude, lat, long)
    IN  IF \A i \in I : D(i) > DISTANCE_THRESHOLD
        THEN NO_STOP_ID
        ELSE LET m == CHOOSE i \in I :
                          /\ \A j \in I : D(i) <= D(j)
                          /\ \A j \in I : D(j) = D(i) => i <= j
             IN  stops[m].StopId

C13_JoinSemantics ==
    \A t \in TaskIds : Running(t) => (cycle = t[1] /\ pc = "join")

\* C14: a task builds its record only after the fetch of its own cycle has
\* returned "Success", and no step changes the roster or the positions
\* while a push task is running
C14_SnapshotFrozen ==
    [][/\ \A t \in TaskIds :
             (tasks[t].pc = "build" /\ tasks'[t] # tasks[t])
                 => (cycle = t[1] /\ fetch_result = "Success")
       /\ (\E t \in TaskIds : Running(t))
             => << vehicle_ids, placards, license_plates,
                   vehicle_lat, vehicle_long, vehicle_onTrip >>'
                    = << vehicle_ids, placards, license_plates,
                         vehicle_lat, vehicle_long, vehicle_onTrip >>]_vars

\* C15: the position and the trip status in a record of cycle c are what the
\* locations request of cycle c reported
C15_NoStalePosition ==
    \A t \in TaskIds :
        tasks[t].payload # << >> =>
            \E p \in Positions(t[1]) :
                /\ tasks[t].payload[1].LocationLatitude = p.latitude
                /\ tasks[t].payload[1].LocationLongitude = p.longitude
                /\ tasks[t].payload[1].VehicleStatus = IF p.onTrip = TRUE THEN 1 ELSE 2

\* C19: with no vehicle in the roster, push_all_vehicle_data returns and the
\* loop goes on to its sleep: no exception, no alert
C19_EmptyRosterCompletes ==
    [][(pc = "dispatch" /\ vehicle_ids = {}) => pc' = "wait"]_vars

\* C20: build_sfmta_payload never reads a missing entry of placards,
\* license_plates, vehicle_lat, vehicle_long or vehicle_onTrip
C20_NoMissingEntry ==
    \A t \in TaskIds :
        /\ tasks[t].result # "KeyError"
        /\ tasks[t].pc = "build" =>
              ~build_raises(t[2], placards, license_plates, vehicle_lat,
                            vehicle_long, vehicle_onTrip)

\* a step in which task t makes a POST
posts(t) == tasks[t].pc = "post" /\ tasks'[t] # tasks[t]

\* C16: the tasks a dispatch starts are one for each id of the roster, tasks
\* start in no other step and only after a successful fetch; a task makes at
\* most MAX_RETRIES POSTs and none after the one that succeeded
C16_OneTaskPerVehicle ==
    [][/\ (pc = "dispatch" /\ pc' = "join")
             => {t \in TaskIds : tasks[t].pc = "none" /\ tasks'[t].pc # "none"}
                    = {cycle} \X vehicle_ids
       /\ \A t \in TaskIds :
             (tasks[t].pc = "none" /\ tasks'[t].pc # "none")
                 => (pc = "dispatch" /\ fetch_result = "Success" /\ tasks'[t].pc = "build")
       /\ \A t \in TaskIds :
             posts(t) => /\ tasks[t].attempts < MAX_RETRIES
                         /\ tasks[t].attempts + tasks[t].local_retries = MAX_RETRIES
       /\ \A t \in TaskIds :
             tasks[t].result = "Success" => tasks'[t] \in {tasks[t], NoTask}]_vars

\* C16: of two tasks of one cycle, one has returned from its successful POST
\* and the other has made MAX_RETRIES failed ones
C16_Witness ==
    \E t, u \in TaskIds :
        /\ t[1] = u[1]
        /\ tasks[t].result = "Success"
        /\ tasks[u].pc = "check"
        /\ tasks[u].attempts = MAX_RETRIES

\* C17: after a completed dispatch time_to_wait is FREQUENCY less the time
\* since the start of the cycle, the sleep adds max(0, time_to_wait) to the
\* clock, and the cycle after a completed one starts at least FREQUENCY
\* after it
C17_CadenceSleep ==
    [][/\ (pc = "join" /\ pc' = "wait")
             => time_to_wait' = FREQUENCY - (clock - start_time)
       /\ (pc = "wait" /\ pc' = "start")
             => clock' - clock = IF time_to_wait > 0 THEN time_to_wait ELSE 0
       /\ (pc = "start" /\ pc' = "roster" /\ cycle >= 1 /\ fetch_result = "Success"
              /\ TasksOf(cycle) # {} /\ map_returns(cycle))
             => clock - start_time >= FREQUENCY]_vars

\* C17: a cycle that took longer than FREQUENCY, the next one about to start
C17_Witness ==
    /\ pc = "start"
    /\ cycle >= 1
    /\ fetch_result = "Success"
    /\ map_returns(cycle)
    /\ time_to_wait < 0
    /\ clock - start_time > FREQUENCY

\* C18: LAST_ERROR_EMAIL_TIME changes only in the step after a
\* send_error_email that returned, to the current_error_time of the failure
\* that was reported; that step is reached from a returned send only
C18_AlertStateFrame ==
    [][/\ LAST_ERROR_EMAIL_TIME' # LAST_ERROR_EMAIL_TIME
             => \/ /\ pc \in {"fetch_set", "except_set"}
                   /\ pc' # pc
                   /\ LAST_ERROR_EMAIL_TIME' = current_error_time
                \/ \E t \in TaskIds :
                      /\ tasks[t].pc = "set"
                      /\ tasks'[t].pc = "done"
                      /\ LAST_ERROR_EMAIL_TIME' = tasks[t].current_error_time
       /\ (pc' = "fetch_set" /\ pc # pc')
             => (pc = "fetch_send" /\ last_sent' = current_error_time)
       /\ (pc' = "except_set" /\ pc # pc')
             => (pc = "except_send" /\ last_sent' = current_error_time)
       /\ \A t \in TaskIds :
             (tasks'[t].pc = "set" /\ tasks[t].pc # "set")
                 => (tasks[t].pc = "send"
                        /\ last_sent' = tasks[t].current_error_time)]_vars

\* C18: the alert state written by a task after its notification, while the
\* send of another task has raised
C18_Witness ==
    /\ LAST_ERROR_EMAIL_TIME # 0
    /\ \E t, u \in TaskIds :
          /\ tasks[t].result = "Failure"
          /\ tasks[u].result = "SMTPException"

====
